---- MODULE Spec2Model ----
(***************************************************************************)
(* The LLM inference HTTP service of terrierutil/llm/fastapi/main.py: the  *)
(* process-wide application object with its model slot (app.package), the  *)
(* startup hook, the POST /generate handler (do_predict), the GET /about   *)
(* handler (show_about) and the two registered exception handlers.         *)
(*                                                                         *)
(* do_predict is a plain "def", so the framework runs each request on a    *)
(* worker thread: requests interleave at the blocking call to predict.     *)
(* Scores are fixed-point integers in units of 10^-ScoreDigits.            *)
(***************************************************************************)
EXTENDS Integers, Sequences, FiniteSets, TLC

\* ---------------------------------------------------------------- bounds
MaxRequests == 2
MaxScores == 2

\* ------------------------------------------------------------- constants
\* CONFIG['ROUND_DIGIT'], the decimal precision of returned scores.
ROUND_DIGIT == 2

\* One digit below the precision: enough for round-down, round-up and ties.
ScoreDigits == ROUND_DIGIT + 1

RECURSIVE Pow10(_)
Pow10(n) == IF n = 0 THEN 1 ELSE 10 * Pow10(n - 1)

\* The weight of the last kept digit, in score units.
Unit == Pow10(ScoreDigits - ROUND_DIGIT)

Requests == 1..MaxRequests

\* Raw scores the runtime can produce (units of 10^-ScoreDigits): values that
\* round down, round up, tie towards an even and an odd neighbour, negative
\* values, and 0.123(456).
RawScores == {-15, -5, 6, 123}
ScoreSeqs == UNION {[1..n -> RawScores] : n \in 1..MaxScores}

\* ------------------------------------------------------------ data model
Missing == "<missing>"
WrongType == "<wrong-type>"
Prompts == {"a", "b"}
GenParams == {"greedy", "sample"}

\* JSON bodies a client can post to /generate.
Bodies ==
    [prompt : Prompts, generation_params : GenParams]
    \cup [prompt : {Missing, WrongType}, generation_params : {"greedy"}]
NoBody == [prompt |-> "<none>", generation_params |-> "<none>"]

\* The application object before line 60 ran: it has no attribute "package".
NoAttr == [model |-> "<no attribute>", tokenizer |-> "<no attribute>"]

\* init_causallm(CONFIG["MODEL_NAME_OR_PATH"]) when the load succeeds.
init_causallm == [model |-> "model", tokenizer |-> "tokenizer"]

\* No about request answered yet.
NoAbout == [status |-> 0, body |-> "<none>"]

NoResult == [kind |-> "none"]
Raised == [kind |-> "raise"]

VARIABLES
    host,            \* "uvicorn": started by main(); "asgi": app driven without lifespan
    phase,           \* "starting", "serving", "aborted"
    package,         \* app.package
    writes,          \* number of assignments to app.package so far
    loader_failed,   \* init_causallm raised in the startup hook
    runtime_scores,  \* the score vector the external runtime yields
    pc,              \* per request: "idle", "received", "inference", "done"
    body,            \* per request: the posted JSON body
    calls,           \* per request: the invocations of predict, in order
    result,          \* per request: what its predict call returned or raised
    response,        \* per request: the HTTP responses sent, in order
    after_failure,   \* per request: it arrived after some inference had failed
    about            \* the latest response of GET /about

vars == <<host, phase, package, writes, loader_failed, runtime_scores,
          pc, body, calls, result, response, after_failure, about>>

\* ------------------------------------------------------- schema, handlers
\* schema.InferenceInput: prompt is a required string.
InferenceInputValid(b) == b.prompt \in Prompts

BodyAcceptedRaw(b) == TRUE

\* do_predict(request, body: InferenceInput): the framework validates the
\* body against the declared model before the handler body runs.
BodyAccepted(b) == InferenceInputValid(b)

\* exception_handler.validation_exception_handler
validation_exception_handler(b) ==
    [status |-> 422, error |-> TRUE,
     message |-> IF b.prompt = Missing THEN "prompt: field required"
                 ELSE "prompt: str type expected"]

\* exception_handler.python_exception_handler
python_exception_handler(exc) ==
    [status |-> 500, error |-> TRUE, message |-> exc]

\* ---------------------------------------------------------------- rounding
AroundTruncate(x, decimals) ==
    (x \div Pow10(ScoreDigits - decimals)) * Pow10(ScoreDigits - decimals)

\* np.around(x, decimals): scale, round half to even, scale back.
Around(x, decimals) ==
    LET u == Pow10(ScoreDigits - decimals)
        q == x \div u
        rem == x % u
    IN  IF 2 * rem < u THEN q * u
        ELSE IF 2 * rem > u THEN (q + 1) * u
        ELSE IF q % 2 = 0 THEN q * u ELSE (q + 1) * u

\* np.around(logits, decimals=CONFIG['ROUND_DIGIT']).tolist()
RoundLogits(logits) == [i \in 1..Len(logits) |-> Around(logits[i], ROUND_DIGIT)]

SuccessEnvelopeFlagged(text, logits) ==
    [status |-> 200, error |-> TRUE,
     results |-> [text |-> text, logits |-> logits]]

\* The dict do_predict returns; the framework sends it with status 200.
SuccessEnvelope(text, logits) ==
    [status |-> 200, error |-> FALSE,
     results |-> [text |-> text, logits |-> logits]]

\* --------------------------------------------------------------- inference
\* predict(model_state, prompts, generation_params) when it returns: one
\* text per prompt, generated by the model under the parameters.
predict(model_state, prompts, generation_params, scores) ==
    [kind |-> "ok",
     text |-> [i \in 1..Len(prompts) |->
                  <<model_state.model, prompts[i], generation_params>>],
     scores |-> scores]

InFlight == {q \in Requests : pc[q] \in {"received", "inference"}}

PromptBatchHead(r) ==
    body[CHOOSE q \in InFlight : \A p \in InFlight : q <= p].prompt

\* prompt = body.prompt
Prompt(r) == body[r].prompt

\* generation_params = body.generation_params
GenerationParams(r) == body[r].generation_params

PackageReadableAlways(pkg) == TRUE

\* Evaluating app.package raises AttributeError while the slot is unset.
PackageReadable(pkg) == pkg # NoAttr

\* The arguments of predict(app.package, [prompt], generation_params).
PredictArgs(r) ==
    [package |-> package, prompts |-> <<Prompt(r)>>,
     generation_params |-> GenerationParams(r)]

\* ------------------------------------------------------------------- Init
Init ==
    /\ host \in {"uvicorn", "asgi"}
    /\ phase = "starting"
    /\ package = NoAttr
    /\ writes = 0
    /\ loader_failed = FALSE
    /\ runtime_scores \in ScoreSeqs
    /\ pc = [r \in Requests |-> "idle"]
    /\ body = [r \in Requests |-> NoBody]
    /\ calls = [r \in Requests |-> <<>>]
    /\ result = [r \in Requests |-> NoResult]
    /\ response = [r \in Requests |-> <<>>]
    /\ after_failure = [r \in Requests |-> FALSE]
    /\ about = NoAbout

\* ---------------------------------------------------------------- startup
\* uvicorn runs the startup hook and only then accepts connections; a caller
\* that drives the imported app object directly never runs the hook.
Accepting ==
    \/ host = "uvicorn" /\ phase = "serving"
    \/ host = "asgi"

\* startup_event, init_causallm returns.
StartupEvent ==
    /\ host = "uvicorn"
    /\ phase = "starting"
    /\ package' = init_causallm
    /\ writes' = writes + 1
    /\ phase' = "serving"
    /\ UNCHANGED <<host, loader_failed, runtime_scores, pc, body, calls,
                   result, response, about,
                   after_failure>>

StartupEventLoadFailsSwallowed ==
    /\ host = "uvicorn"
    /\ phase = "starting"
    /\ loader_failed' = TRUE
    /\ phase' = "serving"
    /\ UNCHANGED <<host, package, writes, runtime_scores, pc, body, calls,
                   result, response, about,
                   after_failure>>

\* startup_event, init_causallm raises: nothing catches it, the assignment
\* of app.package is not reached and the server exits.
StartupEventLoadFails ==
    /\ host = "uvicorn"
    /\ phase = "starting"
    /\ loader_failed' = TRUE
    /\ phase' = "aborted"
    /\ UNCHANGED <<host, package, writes, runtime_scores, pc, body, calls,
                   result, response, about,
                   after_failure>>

\* --------------------------------------------------------- POST /generate
\* A client posts body b; request slots are used in order.
Receive(r, b) ==
    /\ Accepting
    /\ pc[r] = "idle"
    /\ \A q \in Requests : q < r => pc[q] # "idle"
    /\ pc' = [pc EXCEPT ![r] = "received"]
    /\ body' = [body EXCEPT ![r] = b]
    /\ after_failure' = [after_failure EXCEPT
                           ![r] = \E q \in Requests : result[q] = Raised]
    /\ UNCHANGED <<host, phase, package, writes, loader_failed,
                   runtime_scores, calls, result, response, about>>

\* The body fails validation: RequestValidationError, handled at line 43.
RejectInvalid(r) ==
    /\ pc[r] = "received"
    /\ ~BodyAccepted(body[r])
    /\ response' = [response EXCEPT
                      ![r] = Append(@, validation_exception_handler(body[r]))]
    /\ pc' = [pc EXCEPT ![r] = "done"]
    /\ UNCHANGED <<host, phase, package, writes, loader_failed,
                   runtime_scores, body, calls, result, about,
                   after_failure>>

\* do_predict up to line 84 when app.package is unset: AttributeError,
\* handled at line 44.
DoPredictNoPackage(r) ==
    /\ pc[r] = "received"
    /\ BodyAccepted(body[r])
    /\ ~PackageReadable(package)
    /\ response' = [response EXCEPT
                      ![r] = Append(@, python_exception_handler("AttributeError"))]
    /\ pc' = [pc EXCEPT ![r] = "done"]
    /\ UNCHANGED <<host, phase, package, writes, loader_failed,
                   runtime_scores, body, calls, result, about,
                   after_failure>>

DoPredictCallReloads(r) ==
    /\ pc[r] = "received"
    /\ BodyAccepted(body[r])
    /\ PackageReadable(package)
    /\ package' = init_causallm
    /\ writes' = writes + 1
    /\ calls' = [calls EXCEPT ![r] = Append(@, PredictArgs(r))]
    /\ pc' = [pc EXCEPT ![r] = "inference"]
    /\ UNCHANGED <<host, phase, loader_failed, runtime_scores, body, result,
                   response, about,
                   after_failure>>

\* do_predict up to line 84: predict is entered and blocks this request.
DoPredictCall(r) ==
    /\ pc[r] = "received"
    /\ BodyAccepted(body[r])
    /\ PackageReadable(package)
    /\ calls' = [calls EXCEPT ![r] = Append(@, PredictArgs(r))]
    /\ pc' = [pc EXCEPT ![r] = "inference"]
    /\ UNCHANGED <<host, phase, package, writes, loader_failed,
                   runtime_scores, body, result, response, about,
                   after_failure>>

\* predict returns; do_predict rounds the scores and returns the envelope.
DoPredictReturn(r) ==
    /\ pc[r] = "inference"
    /\ LET c == calls[r][Len(calls[r])]
           out == predict(c.package, c.prompts, c.generation_params,
                          runtime_scores)
       IN  /\ result' = [result EXCEPT ![r] = out]
           /\ response' = [response EXCEPT
                             ![r] = Append(@, SuccessEnvelope(out.text,
                                                   RoundLogits(out.scores)))]
    /\ pc' = [pc EXCEPT ![r] = "done"]
    /\ UNCHANGED <<host, phase, package, writes, loader_failed,
                   runtime_scores, body, calls, about,
                   after_failure>>

DoPredictRaiseRetries(r) ==
    /\ pc[r] = "inference"
    /\ IF Len(calls[r]) < 2
       THEN /\ calls' = [calls EXCEPT ![r] = Append(@, PredictArgs(r))]
            /\ UNCHANGED <<result, response, pc>>
       ELSE /\ result' = [result EXCEPT ![r] = Raised]
            /\ response' = [response EXCEPT
                  ![r] = Append(@, python_exception_handler("RuntimeError"))]
            /\ pc' = [pc EXCEPT ![r] = "done"]
            /\ UNCHANGED calls
    /\ UNCHANGED <<host, phase, package, writes, loader_failed,
                   runtime_scores, body, about,
                   after_failure>>

DoPredictRaiseDropsPackage(r) ==
    /\ pc[r] = "inference"
    /\ result' = [result EXCEPT ![r] = Raised]
    /\ response' = [response EXCEPT
                      ![r] = Append(@, python_exception_handler("RuntimeError"))]
    /\ pc' = [pc EXCEPT ![r] = "done"]
    /\ package' = NoAttr
    /\ UNCHANGED <<host, phase, writes, loader_failed,
                   runtime_scores, body, calls, about,
                   after_failure>>

\* predict raises: nothing in do_predict catches it; handled at line 44.
DoPredictRaise(r) ==
    /\ pc[r] = "inference"
    /\ result' = [result EXCEPT ![r] = Raised]
    /\ response' = [response EXCEPT
                      ![r] = Append(@, python_exception_handler("RuntimeError"))]
    /\ pc' = [pc EXCEPT ![r] = "done"]
    /\ UNCHANGED <<host, phase, package, writes, loader_failed,
                   runtime_scores, body, calls, about,
                   after_failure>>

\* -------------------------------------------------------------- GET /about
ShowAboutReadsPackage ==
    /\ Accepting
    /\ about' = IF package = NoAttr
                THEN [status |-> 500, body |-> "AttributeError"]
                ELSE [status |-> 200, body |-> "diagnostics"]
    /\ UNCHANGED <<host, phase, package, writes, loader_failed,
                   runtime_scores, pc, body, calls, result, response,
                   after_failure>>

\* show_about: reads interpreter and accelerator information only.
ShowAbout ==
    /\ Accepting
    /\ about' = [status |-> 200, body |-> "diagnostics"]
    /\ UNCHANGED <<host, phase, package, writes, loader_failed,
                   runtime_scores, pc, body, calls, result, response,
                   after_failure>>

\* ------------------------------------------------------------------- Spec
Next ==
    \/ StartupEvent
    \/ StartupEventLoadFails
    \/ \E r \in Requests, b \in Bodies : Receive(r, b)
    \/ \E r \in Requests : RejectInvalid(r)
    \/ \E r \in Requests : DoPredictNoPackage(r)
    \/ \E r \in Requests : DoPredictCall(r)
    \/ \E r \in Requests : DoPredictReturn(r)
    \/ \E r \in Requests : DoPredictRaise(r)
    \/ ShowAbout

Spec == Init /\ [][Next]_vars

TypeOK ==
    /\ host \in {"uvicorn", "asgi"}
    /\ phase \in {"starting", "serving", "aborted"}
    /\ package \in {NoAttr, init_causallm}
    /\ writes \in 0..1
    /\ loader_failed \in BOOLEAN
    /\ runtime_scores \in ScoreSeqs
    /\ pc \in [Requests -> {"idle", "received", "inference", "done"}]
    /\ \A r \in Requests : body[r] \in Bodies \cup {NoBody}
    /\ after_failure \in [Requests -> BOOLEAN]
    /\ about.status \in {0, 200}

\* ================================================================ claims
Done(r) == pc[r] = "done"
Sent(r) == response[r][1]
IsSuccess(m) ==
    /\ DOMAIN m = {"status", "error", "results"}
    /\ m.status = 200
    /\ m.error = FALSE
IsError(m) ==
    /\ DOMAIN m = {"status", "error", "message"}
    /\ m.status \in {422, 500}
    /\ m.error = TRUE
Succeeded(r) == Done(r) /\ Sent(r).status = 200
FailedWith(r, code) == Done(r) /\ Sent(r).status = code
Abs(x) == IF x < 0 THEN -x ELSE x

\* C1: every generate request gets at most one response, exactly one once it
\* is handled, and that response is the success envelope with status 200 or
\* the error envelope with status 422 or 500; flag and status always agree.
C1_EnvelopeConsistent ==
    \A r \in Requests :
        /\ Len(response[r]) <= 1
        /\ Done(r) <=> Len(response[r]) = 1
        /\ \A i \in 1..Len(response[r]) :
              IsSuccess(response[r][i]) \/ IsError(response[r][i])

C1_Witness ==
    \E r, q \in Requests :
        /\ Succeeded(r) /\ IsSuccess(Sent(r))
        /\ FailedWith(q, 500) /\ IsError(Sent(q))

\* C2: a request whose prompt is missing or wrong-typed never reaches the
\* inference function and, once answered, was answered 422 with error=true.
C2_InvalidNeverInferred ==
    \A r \in Requests :
        body[r].prompt \in {Missing, WrongType} =>
            /\ calls[r] = <<>>
            /\ result[r] = NoResult
            /\ pc[r] # "inference"
            /\ Done(r) => Sent(r).status = 422 /\ Sent(r).error = TRUE

C2_Witness ==
    \E r, q \in Requests :
        /\ package = init_causallm
        /\ body[r].prompt = Missing /\ FailedWith(r, 422)
        /\ body[q].prompt = WrongType /\ FailedWith(q, 422)

\* C3: a request whose inference raised is answered 500 with error=true; the
\* model pair is still in place afterwards, and every valid request that
\* arrives after a failure and whose own inference does not raise is
\* answered 200 with error=false.
C3_FailureLeavesServerUsable ==
    /\ \A r \in Requests :
          result[r] = Raised =>
              /\ Done(r) /\ Sent(r).status = 500 /\ Sent(r).error = TRUE
              /\ package = init_causallm
    /\ \A q \in Requests :
          (after_failure[q] /\ Done(q) /\ InferenceInputValid(body[q])
              /\ result[q] # Raised)
          => Sent(q).status = 200 /\ Sent(q).error = FALSE

C3_Witness ==
    \E r, q \in Requests :
        /\ result[r] = Raised /\ FailedWith(r, 500)
        /\ after_failure[q] /\ Succeeded(q)

\* C4: every success response was computed from the fully initialised pair,
\* and a valid request handled while the slot is unset is answered with the
\* error envelope and status 500 without reaching the inference function.
C4_NoSuccessBeforeStartup ==
    \A r \in Requests :
        /\ Succeeded(r) =>
              /\ Len(calls[r]) >= 1
              /\ \A i \in 1..Len(calls[r]) : calls[r][i].package = init_causallm
        /\ \A i \in 1..Len(calls[r]) : calls[r][i].package # NoAttr
        /\ (Done(r) /\ InferenceInputValid(body[r]) /\ host = "asgi") =>
              Sent(r).status = 500 /\ Sent(r).error = TRUE /\ calls[r] = <<>>

C4_Witness ==
    \E r \in Requests :
        /\ package = NoAttr
        /\ phase = "starting"
        /\ InferenceInputValid(body[r])
        /\ FailedWith(r, 500)
        /\ Sent(r).message = "AttributeError"

\* C5: the model slot is assigned at most once, only by the startup hook; a
\* serving process has assigned it exactly once, and from then on it holds
\* the pair the loader returned, whatever requests were handled.
C5_SlotWrittenOnce ==
    /\ writes <= 1
    /\ writes = 0 => package = NoAttr /\ phase # "serving"
    /\ writes = 1 => package = init_causallm /\ phase = "serving"

C5_Witness ==
    /\ writes = 1
    /\ package = init_causallm
    /\ about # NoAbout
    /\ \E r, q \in Requests :
          /\ Succeeded(r)
          /\ FailedWith(q, 500) \/ FailedWith(q, 422)

\* C6: once the loader has failed in the startup hook, startup is aborted,
\* the slot is unset, and no generate or about request is ever received.
C6_LoadFailureIsFatal ==
    loader_failed =>
        /\ phase = "aborted"
        /\ package = NoAttr
        /\ writes = 0
        /\ \A r \in Requests : pc[r] = "idle" /\ response[r] = <<>>
        /\ about = NoAbout

C6_Witness == loader_failed /\ phase = "aborted"

\* C7: in a success response there are as many scores as the inference
\* function produced, in the same order, each a multiple of 10^-ROUND_DIGIT
\* nearest to its raw score, a tie going to the even neighbour.
C7_ScoresRounded ==
    \A r \in Requests :
        Succeeded(r) =>
            LET raw == result[r].scores
                out == Sent(r).results.logits
            IN  /\ Len(out) = Len(raw)
                /\ \A i \in 1..Len(raw) :
                      /\ out[i] % Unit = 0
                      /\ 2 * Abs(out[i] - raw[i]) <= Unit
                      /\ 2 * Abs(out[i] - raw[i]) = Unit =>
                            (out[i] \div Unit) % 2 = 0

C7_Witness ==
    \E r \in Requests :
        /\ Succeeded(r)
        /\ result[r].scores = <<123, 6>>
        /\ Sent(r).results.logits = <<120, 10>>

\* C8: every about request is answered 200 with the diagnostics, whatever
\* generate requests were handled before and whether or not the slot is set.
C8_AboutAlwaysOk ==
    about # NoAbout => about.status = 200 /\ about.body = "diagnostics"

C8_Witness ==
    /\ about # NoAbout
    /\ package = NoAttr
    /\ \E r \in Requests : FailedWith(r, 500)

\* C9: the response of a request is a function of its own body, of the
\* outcome of its own inference call and of the shared pair alone, and its
\* inference call was made with its own prompt and parameters.
C9_ResponseFromOwnBody ==
    \A r \in Requests :
        Done(r) =>
            Sent(r) =
                IF ~InferenceInputValid(body[r])
                    THEN validation_exception_handler(body[r])
                ELSE IF result[r] = NoResult
                    THEN python_exception_handler("AttributeError")
                ELSE IF result[r] = Raised
                    THEN python_exception_handler("RuntimeError")
                ELSE [status |-> 200, error |-> FALSE,
                      results |->
                        [text |-> <<<<init_causallm.model, body[r].prompt,
                                      body[r].generation_params>>>>,
                         logits |-> RoundLogits(result[r].scores)]]

C9_Witness ==
    \E r, q \in Requests :
        /\ r < q
        /\ pc[r] = "inference"
        /\ Succeeded(q)
        /\ body[r].prompt # body[q].prompt
        /\ body[r].generation_params # body[q].generation_params

\* C10: a validated request that found the slot set has invoked the
\* inference function exactly once, with the pair, the one-element batch of
\* its own prompt and its own generation parameters; no request invokes it
\* twice, whether the call returned or raised.
C10_PredictCalledOnce ==
    \A r \in Requests :
        /\ Len(calls[r]) <= 1
        /\ (pc[r] = "inference" \/ result[r] # NoResult
               \/ (Done(r) /\ InferenceInputValid(body[r]) /\ host = "uvicorn"))
           => calls[r] = <<[package |-> init_causallm,
                            prompts |-> <<body[r].prompt>>,
                            generation_params |-> body[r].generation_params]>>

C10_Witness ==
    \E r, q \in Requests :
        /\ result[r] = Raised /\ Done(r) /\ Len(calls[r]) = 1
        /\ Succeeded(q) /\ Len(calls[q]) = 1

====
